---- MODULE Spec2Model ----
(***************************************************************************)
(* A model of python-snap7's layout parser (snap7/util/__init__.py), of    *)
(* the fake S7 server wrapper (snap7/server/__init__.py) and of the        *)
(* boolean read-modify-write example (example/boolean.py).                 *)
(*                                                                         *)
(* Python strings are modelled as sequences of one-character strings, so   *)
(* that split, lstrip and startswith are computed character by character.  *)
(***************************************************************************)
EXTENDS Integers, Sequences, FiniteSets, TLC

\* ------------------------------------------------------------------------
\* Bounds of the model
\* ------------------------------------------------------------------------

\* Longest generated layout text, in lines.
MaxLines == 3

\* How many times parse_specification is called on the same text.
MaxCalls == 2

\* How many set_bool calls the example makes between its read and its write.
MaxSets == 2

\* ------------------------------------------------------------------------
\* Python string primitives used by parse_specification
\* ------------------------------------------------------------------------

\* The characters str.lstrip() and str.split() treat as white space (the
\* ones that occur in layout texts; "\n" never occurs inside a line).
Whitespace == {" ", "\t"}

\* bool(line): a str is truthy iff it is not empty.
truthy(s) == Len(s) > 0

\* s.startswith(c) for a one-character prefix c.
startswith(s, c) == Len(s) > 0 /\ s[1] = c

\* s.lstrip(): s without its leading white space.
RECURSIVE lstrip(_)
lstrip(s) ==
    IF Len(s) > 0 /\ s[1] \in Whitespace THEN lstrip(Tail(s)) ELSE s

\* s.split(sep) for a one-character separator: always at least one piece.
RECURSIVE split_sep(_, _)
split_sep(s, sep) ==
    IF \A k \in 1..Len(s) : s[k] # sep
    THEN <<s>>
    ELSE LET k == CHOOSE k \in 1..Len(s) :
                      s[k] = sep /\ \A j \in 1..(k - 1) : s[j] # sep
         IN  <<SubSeq(s, 1, k - 1)>> \o split_sep(SubSeq(s, k + 1, Len(s)), sep)

\* The first token of a string that starts with a non-white-space character.
RECURSIVE first_token(_)
first_token(s) ==
    IF Len(s) = 0 \/ s[1] \in Whitespace THEN <<>>
    ELSE <<s[1]>> \o first_token(Tail(s))

\* s.split(): the maximal runs of non-white-space characters, in order.
RECURSIVE split_ws(_)
split_ws(s) ==
    LET t == lstrip(s) IN
    IF Len(t) = 0 THEN <<>>
    ELSE LET tok == first_token(t)
         IN  <<tok>> \o split_ws(SubSeq(t, Len(tok) + 1, Len(t)))

\* ------------------------------------------------------------------------
\* OrderedDict, as a sequence of <<key, value>> pairs in insertion order
\* ------------------------------------------------------------------------

OrderedDict == <<>>

has_key(d, key) == \E k \in 1..Len(d) : d[k][1] = key

\* d[key] = value: a new key is appended, an existing key keeps its place
\* and takes the new value.
setitem(d, key, value) ==
    IF has_key(d, key)
    THEN [k \in 1..Len(d) |-> IF d[k][1] = key THEN <<key, value>> ELSE d[k]]
    ELSE Append(d, <<key, value>>)

\* ------------------------------------------------------------------------
\* parse_specification
\* ------------------------------------------------------------------------

\* The guard of the loop body: `if line and not line.lstrip().startswith("#")`.
is_parsed_line(line) == truthy(line) /\ ~startswith(lstrip(line), "#")

\* The tokens of a line: line.lstrip().split("#")[0].split().
line_tokens(line) == split_ws(split_sep(lstrip(line), "#")[1])

\* A variant that unpacks the first three tokens and ignores the rest.
unpack_raises_only_short(toks) == Len(toks) < 3

\* `index, var_name, _type = ...` raises ValueError unless there are
\* exactly three tokens.
unpack_raises(toks) == Len(toks) # 3

\* The for loop over the lines, from line k on, with the dictionary so far.
\* The outcome is a return (kind "return", with the value returned) or an
\* exception (kind "raise", with its type): an exception leaves the function
\* without a return value, and the value field is then empty.
RECURSIVE parse_lines(_, _, _)
parse_lines(lines, k, parsed) ==
    IF k > Len(lines)
    THEN [kind |-> "return", value |-> parsed, exc |-> "none"]
    ELSE IF is_parsed_line(lines[k])
         THEN LET toks == line_tokens(lines[k]) IN
              IF unpack_raises(toks)
              THEN [kind |-> "raise", value |-> <<>>, exc |-> "ValueError"]
              ELSE parse_lines(lines, k + 1,
                               setitem(parsed, toks[2], <<toks[1], toks[3]>>))
         ELSE parse_lines(lines, k + 1, parsed)

parse_specification(db_spec) ==
    parse_lines(split_sep(db_spec, "\n"), 1, OrderedDict)

\* ------------------------------------------------------------------------
\* Layout texts
\* ------------------------------------------------------------------------

LineEmpty == <<>>
LineBlank == <<" ", "\t">>
LineComment == <<" ", "#", " ", "c">>
\* "4\t ID INT" (the module docstring separates with a tab and spaces)
LineID == <<"4", "\t", " ", "I", "D", " ", "I", "N", "T">>
\* "6 NAME STRING[6]"
LineNAME == <<"6", " ", "N", "A", "M", "E", " ",
              "S", "T", "R", "I", "N", "G", "[", "6", "]">>
\* "12.0 testbool1 BOOL"
LineBool == <<"1", "2", ".", "0", " ",
              "t", "e", "s", "t", "b", "o", "o", "l", "1", " ",
              "B", "O", "O", "L">>
\* "13  testReal  REAL"
LineReal == <<"1", "3", " ", " ",
              "t", "e", "s", "t", "R", "e", "a", "l", " ", " ",
              "R", "E", "A", "L">>
\* "  17 ID DWORD # again": indented, a trailing comment, the name ID again
LineDup == <<" ", " ", "1", "7", " ", "I", "D", " ",
             "D", "W", "O", "R", "D", " ", "#", " ", "a", "g", "a", "i", "n">>
\* "abc badtoken": two tokens
LineTwoTokens == <<"a", "b", "c", " ", "b", "a", "d", "t", "o", "k", "e", "n">>
\* "4 ID INT x": four tokens
LineFourTokens == <<"4", " ", "I", "D", " ", "I", "N", "T", " ", "x">>
\* "8 T FOO": a type token that names no data type
LineBadType == <<"8", " ", "T", " ", "F", "O", "O">>
\* "x9 V INT": an offset token that is no number
LineBadOffset == <<"x", "9", " ", "V", " ", "I", "N", "T">>

LineChoices ==
    { LineEmpty, LineBlank, LineComment, LineID, LineNAME, LineBool, LineReal,
      LineDup, LineTwoTokens, LineFourTokens, LineBadType, LineBadOffset }

\* "\n".join(ls)
RECURSIVE join_lines(_)
join_lines(ls) ==
    IF Len(ls) = 0 THEN <<>>
    ELSE IF Len(ls) = 1 THEN ls[1]
    ELSE ls[1] \o <<"\n">> \o join_lines(Tail(ls))

\* The four-line table of the parser-determinism example.
ExampleText == join_lines(<<LineID, LineNAME, LineBool, LineReal>>)

Texts ==
    {ExampleText} \cup
    { join_lines(ls) : ls \in UNION { [1..n -> LineChoices] : n \in 0..MaxLines } }

\* ------------------------------------------------------------------------
\* Bool codec (snap7.util.getters.get_bool, snap7.util.setters.set_bool)
\* A bytearray is a sequence of integers 0..255; Python index i is i + 1.
\* ------------------------------------------------------------------------

Pow2(n) == 2 ^ n

\* Bit bool_index of the byte at byte_index; bit 0 is the least significant.
get_bool(bytearray_, byte_index, bool_index) ==
    (bytearray_[byte_index + 1] \div Pow2(bool_index)) % 2 = 1

\* Sets or clears that bit and leaves the rest of the byte alone.
set_bool(bytearray_, byte_index, bool_index, value) ==
    LET index_value   == Pow2(bool_index)
        current_value == get_bool(bytearray_, byte_index, bool_index)
    IN  IF current_value = value THEN bytearray_
        ELSE IF value
             THEN [bytearray_ EXCEPT ![byte_index + 1] = @ + index_value]
             ELSE [bytearray_ EXCEPT ![byte_index + 1] = @ - index_value]

\* ------------------------------------------------------------------------
\* _init_standard_values
\* ------------------------------------------------------------------------

\* bytearray(n): n zero bytes.
zeros(n) == [k \in 1..n |-> 0]

\* ba[index] = value
setbyte(ba, index, value) == [ba EXCEPT ![index + 1] = value]

\* ba[lo:hi] = bytes, for 0 <= lo <= hi <= len(ba): the slice is replaced
\* by bytes, whatever their number, so the length may change.
setslice(ba, lo, hi, bytes) ==
    SubSeq(ba, 1, lo) \o bytes \o SubSeq(ba, hi + 1, Len(ba))

\* struct.pack(">b", v) and struct.pack("B", v)
pack_b(v) == <<v % 256>>
pack_B(v) == <<v>>
\* struct.pack(">h", v): two's complement, most significant byte first
pack_h(v) == LET u == v % 65536 IN <<u \div 256, u % 256>>
\* struct.pack(">i", v), by floor division: every intermediate value fits
\* 32 bits
pack_i(v) ==
    <<(v \div 16777216) % 256, (v \div 65536) % 256, (v \div 256) % 256,
      v % 256>>
\* struct.pack(">f", x) for the literals of _init_standard_values: the
\* IEEE-754 binary32 pattern of each, most significant byte first.
pack_f(literal) ==
    CASE literal = "-3.402823e38"     -> <<255, 127, 255, 253>>
      [] literal = "-3.402823e12"     -> <<212, 70, 18, 4>>
      [] literal = "-175494351e-38"   -> <<142, 14, 96, 192>>
      [] literal = "-1.175494351e-12" -> <<171, 165, 111, 166>>
      [] literal = "0.0"              -> <<0, 0, 0, 0>>
      [] literal = "1.175494351e-38"  -> <<0, 128, 0, 0>>
      [] literal = "1.175494351e-12"  -> <<43, 165, 111, 166>>
      [] literal = "3.402823466e12"   -> <<84, 70, 18, 5>>
      [] literal = "3.402823466e38"   -> <<127, 127, 255, 255>>

LowerCase ==
    <<"a", "b", "c", "d", "e", "f", "g", "h", "i", "j", "k", "l", "m",
      "n", "o", "p", "q", "r", "s", "t", "u", "v", "w", "x", "y", "z">>

\* ord(c) for a lower-case letter or a space
ord(c) ==
    IF c = " " THEN 32
    ELSE 96 + CHOOSE k \in 1..Len(LowerCase) : LowerCase[k] = c

\* "the brown fox jumps over the lazy dog"
StdString ==
    <<"t", "h", "e", " ", "b", "r", "o", "w", "n", " ", "f", "o", "x", " ",
      "j", "u", "m", "p", "s", " ", "o", "v", "e", "r", " ", "t", "h", "e",
      " ", "l", "a", "z", "y", " ", "d", "o", "g">>

\* for letter, i in zip(string, range(102, 102 + len(string) + 1)):
\*     ba[i] = ord(letter)
\* zip stops with the string, so byte 102 + j takes letter j (from 0).
write_letters(ba, string) ==
    [k \in 1..Len(ba) |->
        IF (k - 1) \in 102..(102 + Len(string) - 1)
        THEN ord(string[(k - 1) - 102 + 1])
        ELSE ba[k]]

\* The buffer after each numbered block of _init_standard_values.
\* 1. Bool: ba = bytearray(1000); ba[0] = 0b10101010
std_bool == setbyte(zeros(1000), 0, 170)

\* 2. Small int
std_sint ==
    setslice(setslice(setslice(setslice(std_bool,
        10, 11, pack_b(-128)), 11, 12, pack_b(0)),
        12, 13, pack_b(100)), 13, 14, pack_b(127))

\* 3. Unsigned small int
std_usint ==
    setslice(setslice(std_sint, 20, 21, pack_B(0)), 21, 22, pack_B(255))

\* 4. Int
std_int ==
    setslice(setslice(setslice(setslice(setslice(std_usint,
        30, 32, pack_h(-32768)), 32, 34, pack_h(-1234)),
        34, 36, pack_h(0)), 36, 38, pack_h(1234)), 38, 40, pack_h(32767))

\* 5. DInt
std_dint ==
    setslice(setslice(setslice(setslice(setslice(std_int,
        40, 44, pack_i(-2147483647 - 1)), 44, 48, pack_i(-32768)),
        48, 52, pack_i(0)), 52, 56, pack_i(32767)),
        56, 60, pack_i(2147483647))

\* 6. Real
std_real_neg ==
    setslice(setslice(setslice(setslice(setslice(std_dint,
        60, 64, pack_f("-3.402823e38")), 64, 68, pack_f("-3.402823e12")),
        68, 72, pack_f("-175494351e-38")),
        72, 76, pack_f("-1.175494351e-12")), 76, 80, pack_f("0.0"))

std_real ==
    setslice(setslice(setslice(setslice(std_real_neg,
        80, 84, pack_f("1.175494351e-38")),
        84, 88, pack_f("1.175494351e-12")),
        88, 92, pack_f("3.402823466e12")),
        92, 96, pack_f("3.402823466e38"))

\* 7. String
std_string ==
    write_letters(setbyte(setbyte(std_real, 100, 254), 101, Len(StdString)),
                  StdString)

\* 8. WORD: two bytes assigned to a slice of four
std_word ==
    setslice(setslice(setslice(setslice(std_string,
        400, 404, <<0, 0>>), 404, 408, <<18, 52>>),
        408, 412, <<171, 205>>), 412, 416, <<255, 255>>)

\* 9. DWORD: four bytes assigned to a slice of eight
std_dword ==
    setslice(setslice(setslice(setslice(std_word,
        500, 508, <<0, 0, 0, 0>>), 508, 516, <<18, 52, 86, 120>>),
        516, 524, <<18, 52, 171, 205>>), 524, 532, <<255, 255, 255, 255>>)

\* return ba
_init_standard_values == std_dword

\* ------------------------------------------------------------------------
\* Server: what the wrapper relies on from snap7.common and snap7.types
\* ------------------------------------------------------------------------

\* The parameter number the wrapper passes for the listening port.
LocalPort == "LocalPort"

\* The keys of snap7.types.cpu_statuses (unknown, stop, run).
cpu_statuses == {0, 4, 8}

\* re.match(ipv4, ip): four dot-separated decimal numbers, each 0..255.
\* An address is modelled by the sequence of its dot-separated numbers.
ipv4_match(ip) == Len(ip) = 4 /\ \A k \in 1..4 : ip[k] \in 0..255

\* check_error(code, context="server") raises RuntimeError for an error code.
check_error_raises(code) == code # 0

\* Python's None, and a returned integer, as values of one shape.
None == <<>>
IntValue(v) == <<v>>

\* What the function error_wrap builds does with the code func returned:
\* it checks the code and falls off its end.
error_wrap(code) ==
    IF check_error_raises(code)
    THEN [outcome |-> "RuntimeError", ret |-> None]
    ELSE [outcome |-> "return", ret |-> None]

\* ------------------------------------------------------------------------
\* Inputs
\* ------------------------------------------------------------------------

Bytes == 0..255
Bits == 0..7

\* Error codes the snap7 library may return (0: success).
LibCodes == {0, 1, 1048576}

\* 127.0.0.1, 0.0.0.0, 192.168.0.256, 10.0.0, and the empty string
Addresses == { <<127, 0, 0, 1>>, <<0, 0, 0, 0>>, <<192, 168, 0, 256>>,
               <<10, 0, 0>>, <<>> }

Ports == {102, 1102}
Statuses == {0, 4, 8, 5, -1}
Areas == {"DB", "PA"}
Masks == {0, 1}

\* ------------------------------------------------------------------------
\* State
\* ------------------------------------------------------------------------

VARIABLES
    db_specification,   \* the layout text handed to parse_specification
    parse_result,       \* what the last call returned or raised
    parse_calls,        \* number of calls made so far
    plc_byte,           \* the PLC's byte 120 of DB 31
    reading,            \* the example's bytearray (empty before db_read)
    orig_byte,          \* the byte db_read returned (history)
    set_calls,          \* the set_bool calls made on reading (history)
    ex_pc,              \* the example's position
    local_port,         \* the library's LocalPort parameter
    running,            \* whether the library's server is started
    cpu_status,         \* the library's virtual CPU status
    areas,              \* the <<area, index>> pairs registered
    op                  \* the last Server operation: its outcome, its return
                        \* value and the native calls it made

parse_vars == <<db_specification, parse_result, parse_calls>>
ex_vars == <<plc_byte, reading, orig_byte, set_calls, ex_pc>>
srv_vars == <<local_port, running, cpu_status, areas, op>>

vars == <<db_specification, parse_result, parse_calls,
          plc_byte, reading, orig_byte, set_calls, ex_pc,
          local_port, running, cpu_status, areas, op>>

NoResult == [kind |-> "none", value |-> <<>>, exc |-> "none"]

NoOp == [name |-> "none", args |-> <<>>, outcome |-> "none", ret |-> None,
         native |-> <<>>]

\* One native call: the library function, its arguments, the code returned.
Native(fn, args, code) == [fn |-> fn, args |-> args, code |-> code]

\* The parser idle on the empty text.
ParseIdle ==
    /\ db_specification = <<>>
    /\ parse_result = NoResult
    /\ parse_calls = 0

\* The example before plc.connect, the PLC's byte cleared.
ExIdle ==
    /\ plc_byte = 0
    /\ reading = <<>>
    /\ orig_byte = 0
    /\ set_calls = <<>>
    /\ ex_pc = "connected"

\* A Server just constructed: nothing registered, not started.
SrvIdle ==
    /\ local_port = 102
    /\ running = FALSE
    /\ cpu_status = 8
    /\ areas = {}
    /\ op = NoOp

\* ------------------------------------------------------------------------
\* parse_specification applied to a layout text
\* ------------------------------------------------------------------------

ParseInit ==
    /\ db_specification \in Texts
    /\ parse_result = NoResult
    /\ parse_calls = 0
    /\ ExIdle
    /\ SrvIdle

\* A caller parses the text (again).
ParseCall ==
    /\ parse_calls < MaxCalls
    /\ parse_result' = parse_specification(db_specification)
    /\ parse_calls' = parse_calls + 1
    /\ UNCHANGED db_specification
    /\ UNCHANGED <<ex_vars, srv_vars>>

ParseNext == ParseCall

SpecParse == ParseInit /\ [][ParseNext]_vars

\* ------------------------------------------------------------------------
\* example/boolean.py: read one byte, set_bool, write the byte back
\* ------------------------------------------------------------------------

ExInit ==
    /\ plc_byte \in Bytes
    /\ reading = <<>>
    /\ orig_byte = 0
    /\ set_calls = <<>>
    /\ ex_pc = "connected"
    /\ ParseIdle
    /\ SrvIdle

\* reading = plc.db_read(31, 120, 1)
ExDbRead ==
    /\ ex_pc = "connected"
    /\ reading' = <<plc_byte>>
    /\ orig_byte' = plc_byte
    /\ ex_pc' = "read"
    /\ UNCHANGED <<plc_byte, set_calls>>
    /\ UNCHANGED <<parse_vars, srv_vars>>

\* snap7.util.setters.set_bool(reading, 0, bool_index, value)
ExSetBool ==
    /\ ex_pc = "read"
    /\ Len(set_calls) < MaxSets
    /\ \E bool_index \in Bits, value \in BOOLEAN :
          /\ reading' = set_bool(reading, 0, bool_index, value)
          /\ set_calls' = Append(set_calls, <<bool_index, value>>)
    /\ UNCHANGED <<plc_byte, orig_byte, ex_pc>>
    /\ UNCHANGED <<parse_vars, srv_vars>>

\* A variant that writes back the byte as it was read, not as it was changed.
ExDbWriteStale ==
    /\ ex_pc = "read"
    /\ Len(set_calls) >= 1
    /\ plc_byte' = orig_byte
    /\ ex_pc' = "written"
    /\ UNCHANGED <<reading, orig_byte, set_calls>>
    /\ UNCHANGED <<parse_vars, srv_vars>>

\* plc.db_write(reading, 31, 120, 1)
ExDbWrite ==
    /\ ex_pc = "read"
    /\ Len(set_calls) >= 1
    /\ plc_byte' = reading[1]
    /\ ex_pc' = "written"
    /\ UNCHANGED <<reading, orig_byte, set_calls>>
    /\ UNCHANGED <<parse_vars, srv_vars>>

ExNext == ExDbRead \/ ExSetBool \/ ExDbWrite

SpecExample == ExInit /\ [][ExNext]_vars

\* ------------------------------------------------------------------------
\* snap7.server.Server
\* Every operation is one step: its native calls are made in order, each
\* returning a code of the library's choosing, and the library changes its
\* own state only on a call it answers with 0.
\* ------------------------------------------------------------------------

SrvInit ==
    /\ local_port = 102
    /\ running = FALSE
    /\ cpu_status \in cpu_statuses
    /\ areas = {}
    /\ op = NoOp
    /\ ParseIdle
    /\ ExIdle

\* The record of an operation that made one native call and whose result
\* went through error_wrap.
Wrapped(name, args, call) ==
    [name |-> name, args |-> args, outcome |-> error_wrap(call.code).outcome,
     ret |-> error_wrap(call.code).ret, native |-> <<call>>]

\* register_area(area, index, userdata)
register_area ==
    \E area \in Areas, code \in LibCodes :
        /\ op' = Wrapped("register_area", <<area, 1>>,
                         Native("Srv_RegisterArea", <<area, 1>>, code))
        /\ areas' = IF code = 0 THEN areas \cup {<<area, 1>>} ELSE areas
        /\ UNCHANGED <<local_port, running, cpu_status>>
        /\ UNCHANGED <<parse_vars, ex_vars>>

\* unregister_area(area, index)
unregister_area ==
    \E area \in Areas, index \in {0, 1}, code \in LibCodes :
        /\ op' = Wrapped("unregister_area", <<area, index>>,
                         Native("Srv_UnregisterArea", <<area, index>>, code))
        /\ areas' = IF code = 0 THEN areas \ {<<area, index>>} ELSE areas
        /\ UNCHANGED <<local_port, running, cpu_status>>
        /\ UNCHANGED <<parse_vars, ex_vars>>

\* lock_area(area, index)
lock_area ==
    \E area \in Areas, index \in {0, 1}, code \in LibCodes :
        /\ op' = Wrapped("lock_area", <<area, index>>,
                         Native("Srv_LockArea", <<area, index>>, code))
        /\ UNCHANGED <<local_port, running, cpu_status, areas>>
        /\ UNCHANGED <<parse_vars, ex_vars>>

\* unlock_area(area, index)
unlock_area ==
    \E area \in Areas, index \in {0, 1}, code \in LibCodes :
        /\ op' = Wrapped("unlock_area", <<area, index>>,
                         Native("Srv_UnlockArea", <<area, index>>, code))
        /\ UNCHANGED <<local_port, running, cpu_status, areas>>
        /\ UNCHANGED <<parse_vars, ex_vars>>

\* set_param(number, value), called with LocalPort
set_param ==
    \E value \in Ports, code \in LibCodes :
        /\ op' = Wrapped("set_param", <<LocalPort, value>>,
                         Native("Srv_SetParam", <<LocalPort, value>>, code))
        /\ local_port' = IF code = 0 THEN value ELSE local_port
        /\ UNCHANGED <<running, cpu_status, areas>>
        /\ UNCHANGED <<parse_vars, ex_vars>>

\* set_mask(kind, mask)
set_mask ==
    \E kind \in Masks, mask \in Masks, code \in LibCodes :
        /\ op' = Wrapped("set_mask", <<kind, mask>>,
                         Native("Srv_SetMask", <<kind, mask>>, code))
        /\ UNCHANGED <<local_port, running, cpu_status, areas>>
        /\ UNCHANGED <<parse_vars, ex_vars>>

\* A variant without the membership test: every status goes to the library.
set_cpu_status_unchecked ==
    \E status \in Statuses, code \in LibCodes :
        /\ op' = Wrapped("set_cpu_status", <<status>>,
                         Native("Srv_SetCpuStatus", <<status>>, code))
        /\ cpu_status' = IF code = 0 THEN status ELSE cpu_status
        /\ UNCHANGED <<local_port, running, areas>>
        /\ UNCHANGED <<parse_vars, ex_vars>>

\* set_cpu_status(status): a status outside cpu_statuses raises ValueError
\* before anything is called.
set_cpu_status ==
    \E status \in Statuses, code \in LibCodes :
        IF status \notin cpu_statuses
        THEN /\ op' = [name |-> "set_cpu_status", args |-> <<status>>,
                       outcome |-> "ValueError", ret |-> None, native |-> <<>>]
             /\ UNCHANGED <<local_port, running, cpu_status, areas>>
             /\ UNCHANGED <<parse_vars, ex_vars>>
        ELSE /\ op' = Wrapped("set_cpu_status", <<status>>,
                              Native("Srv_SetCpuStatus", <<status>>, code))
             /\ cpu_status' = IF code = 0 THEN status ELSE cpu_status
             /\ UNCHANGED <<local_port, running, areas>>
             /\ UNCHANGED <<parse_vars, ex_vars>>

\* clear_events()
clear_events ==
    \E code \in LibCodes :
        /\ op' = Wrapped("clear_events", <<>>,
                         Native("Srv_ClearEvents", <<>>, code))
        /\ UNCHANGED <<local_port, running, cpu_status, areas>>
        /\ UNCHANGED <<parse_vars, ex_vars>>

\* stop()
stop ==
    \E code \in LibCodes :
        /\ op' = Wrapped("stop", <<>>, Native("Srv_Stop", <<>>, code))
        /\ running' = IF code = 0 THEN FALSE ELSE running
        /\ UNCHANGED <<local_port, cpu_status, areas>>
        /\ UNCHANGED <<parse_vars, ex_vars>>

\* The steps start and start_to share: the port is set through set_param
\* (itself wrapped, so its RuntimeError ends the caller) when it is not 102.
\* port_calls: the native calls that makes; port_raised: whether it raised.
port_calls(tcp_port, code1) ==
    IF tcp_port # 102
    THEN <<Native("Srv_SetParam", <<LocalPort, tcp_port>>, code1)>>
    ELSE <<>>

port_raised(tcp_port, code1) ==
    tcp_port # 102 /\ error_wrap(code1).outcome = "RuntimeError"

port_after(tcp_port, code1) ==
    IF tcp_port # 102 /\ code1 = 0 THEN tcp_port ELSE local_port

\* start(tcpport)
start ==
    \E tcpport \in Ports, code1 \in LibCodes, code2 \in LibCodes :
        /\ local_port' = port_after(tcpport, code1)
        /\ IF port_raised(tcpport, code1)
           THEN /\ op' = [name |-> "start", args |-> <<tcpport>>,
                          outcome |-> "RuntimeError", ret |-> None,
                          native |-> port_calls(tcpport, code1)]
                /\ UNCHANGED running
           ELSE /\ op' = [name |-> "start", args |-> <<tcpport>>,
                          outcome |-> error_wrap(code2).outcome,
                          ret |-> error_wrap(code2).ret,
                          native |-> port_calls(tcpport, code1) \o
                                     <<Native("Srv_Start", <<>>, code2)>>]
                /\ running' = IF code2 = 0 THEN TRUE ELSE running
        /\ UNCHANGED <<cpu_status, areas>>
        /\ UNCHANGED <<parse_vars, ex_vars>>

\* start_to(ip, tcp_port): the port is set first, the address is checked
\* second, the server is started third.
start_to ==
    \E ip \in Addresses, tcp_port \in Ports,
       code1 \in LibCodes, code2 \in LibCodes :
        /\ local_port' = port_after(tcp_port, code1)
        /\ IF port_raised(tcp_port, code1)
           THEN /\ op' = [name |-> "start_to", args |-> <<ip, tcp_port>>,
                          outcome |-> "RuntimeError", ret |-> None,
                          native |-> port_calls(tcp_port, code1)]
                /\ UNCHANGED running
           ELSE IF ~ipv4_match(ip)
           THEN /\ op' = [name |-> "start_to", args |-> <<ip, tcp_port>>,
                          outcome |-> "ValueError", ret |-> None,
                          native |-> port_calls(tcp_port, code1)]
                /\ UNCHANGED running
           ELSE /\ op' = [name |-> "start_to", args |-> <<ip, tcp_port>>,
                          outcome |-> error_wrap(code2).outcome,
                          ret |-> error_wrap(code2).ret,
                          native |-> port_calls(tcp_port, code1) \o
                                     <<Native("Srv_StartTo", <<ip>>, code2)>>]
                /\ running' = IF code2 = 0 THEN TRUE ELSE running
        /\ UNCHANGED <<cpu_status, areas>>
        /\ UNCHANGED <<parse_vars, ex_vars>>

\* mainloop with init_standard_values: ba = _init_standard_values() is
\* registered as DB 0.
mainloop_standard_values ==
    \E code \in LibCodes :
        /\ op' = Wrapped("register_area", <<"DB", 0>>,
                         Native("Srv_RegisterArea", <<"DB", 0>>, code))
        /\ areas' = IF code = 0 THEN areas \cup {<<"DB", 0>>} ELSE areas
        /\ UNCHANGED <<local_port, running, cpu_status>>
        /\ UNCHANGED <<parse_vars, ex_vars>>

\* The buffer a client reads as DB 0: mainloop registers the standard
\* values under that index and nothing else.
db0 == IF <<"DB", 0>> \in areas THEN _init_standard_values ELSE <<>>

SrvNext ==
    \/ register_area
    \/ unregister_area
    \/ lock_area
    \/ unlock_area
    \/ set_param
    \/ set_mask
    \/ set_cpu_status
    \/ clear_events
    \/ start
    \/ start_to
    \/ stop
    \/ mainloop_standard_values

SpecServer == SrvInit /\ [][SrvNext]_vars

\* ------------------------------------------------------------------------
\* Properties of parse_specification
\* ------------------------------------------------------------------------

\* The lines of the text under parse.
TextLines == split_sep(db_specification, "\n")

\* A blank line: empty, or white space only.
IsBlankLine(line) == \A k \in 1..Len(line) : line[k] \in Whitespace

\* A comment line: its first character that is not white space is '#'.
IsCommentLine(line) ==
    \E k \in 1..Len(line) :
        line[k] = "#" /\ \A j \in 1..(k - 1) : line[j] \in Whitespace

\* A field line: neither blank nor a comment.
IsFieldLine(line) == ~IsBlankLine(line) /\ ~IsCommentLine(line)

\* The part of a line before its first '#'.
BeforeHash(line) ==
    IF \E k \in 1..Len(line) : line[k] = "#"
    THEN SubSeq(line, 1, (CHOOSE k \in 1..Len(line) :
                    line[k] = "#" /\ \A j \in 1..(k - 1) : line[j] # "#") - 1)
    ELSE line

\* The number of tokens of a line, counted as the places where a token
\* starts.
TokenCount(line) ==
    LET t == BeforeHash(line)
    IN  Cardinality({k \in 1..Len(t) :
            t[k] \notin Whitespace /\ (k = 1 \/ t[k - 1] \in Whitespace)})

Digits == {"0", "1", "2", "3", "4", "5", "6", "7", "8", "9"}

\* An offset token: a byte offset (13) or a byte.bit pair (12.3).
IsOffsetToken(tok) ==
    \/ Len(tok) > 0 /\ \A k \in 1..Len(tok) : tok[k] \in Digits
    \/ /\ Len(tok) > 2
       /\ tok[Len(tok) - 1] = "."
       /\ tok[Len(tok)] \in {"0", "1", "2", "3", "4", "5", "6", "7"}
       /\ \A k \in 1..(Len(tok) - 2) : tok[k] \in Digits

\* The type tokens of the generated lines that name a data type.
TypeTokens ==
    { <<"I", "N", "T">>, <<"B", "O", "O", "L">>, <<"R", "E", "A", "L">>,
      <<"D", "W", "O", "R", "D">>,
      <<"S", "T", "R", "I", "N", "G", "[", "6", "]">> }

\* A well-formed field line: <offset> <name> <type>.
IsWellFormed(line) ==
    /\ TokenCount(line) = 3
    /\ IsOffsetToken(line_tokens(line)[1])
    /\ line_tokens(line)[3] \in TypeTokens

Raised == [kind |-> "raise", value |-> <<>>, exc |-> "ValueError"]

\* C1 (as claimed): a text with a malformed field line anywhere (wrong token
\* count, unknown type token or non-numeric offset token) makes the whole
\* parse fail; no layout is returned.
C1_MalformedLineFailsParse ==
    (/\ parse_calls > 0
     /\ \E k \in 1..Len(TextLines) :
            IsFieldLine(TextLines[k]) /\ ~IsWellFormed(TextLines[k]))
    => parse_result.kind = "raise"

\* C1 (amended): a text with a field line anywhere whose token count is not
\* three makes the whole parse fail with ValueError; no layout, not even a
\* partial one, is returned.
C1_WrongTokenCountFailsParse ==
    (/\ parse_calls > 0
     /\ \E k \in 1..Len(TextLines) :
            IsFieldLine(TextLines[k]) /\ TokenCount(TextLines[k]) # 3)
    => parse_result = Raised

\* C1 witness: a line of four tokens between two well-formed lines, parsed.
C1_Witness ==
    /\ parse_calls > 0
    /\ Len(TextLines) = 3
    /\ IsFieldLine(TextLines[1]) /\ IsWellFormed(TextLines[1])
    /\ IsFieldLine(TextLines[2]) /\ TokenCount(TextLines[2]) = 4
    /\ IsFieldLine(TextLines[3]) /\ IsWellFormed(TextLines[3])
    /\ parse_result = Raised

\* C2 (as claimed): comment lines and blank lines (empty or white space
\* only) add nothing and never fail the parse: the result is that of
\* parsing the text without them.
C2_SkipsCommentAndBlankLines ==
    parse_calls > 0 =>
        parse_result =
            parse_specification(join_lines(SelectSeq(TextLines, IsFieldLine)))

\* The field lines of the text, in order.
FieldLines == SelectSeq(TextLines, IsFieldLine)

\* The entry a well-formed field line stands for.
EntryOf(line) ==
    <<line_tokens(line)[2], <<line_tokens(line)[1], line_tokens(line)[3]>>>>

\* The layout of the four-line example: ID, NAME, testbool1, testReal.
ExampleLayout ==
    << <<<<"I", "D">>, <<<<"4">>, <<"I", "N", "T">>>>>>,
       <<<<"N", "A", "M", "E">>,
         <<<<"6">>, <<"S", "T", "R", "I", "N", "G", "[", "6", "]">>>>>>,
       <<<<"t", "e", "s", "t", "b", "o", "o", "l", "1">>,
         <<<<"1", "2", ".", "0">>, <<"B", "O", "O", "L">>>>>>,
       <<<<"t", "e", "s", "t", "R", "e", "a", "l">>,
         <<<<"1", "3">>, <<"R", "E", "A", "L">>>>>> >>

\* C3 (as claimed): a text whose field lines are all well formed parses to
\* one entry per field line, in order of appearance, each name with its
\* line's offset and type; the four-line example gives its four entries.
C3_OneEntryPerFieldLine ==
    (/\ parse_calls > 0
     /\ \A k \in 1..Len(FieldLines) : IsWellFormed(FieldLines[k]))
    => /\ parse_result.kind = "return"
       /\ parse_result.value =
              [k \in 1..Len(FieldLines) |-> EntryOf(FieldLines[k])]
       /\ db_specification = ExampleText
              => parse_result.value = ExampleLayout

\* ------------------------------------------------------------------------
\* Properties of the boolean example
\* ------------------------------------------------------------------------

\* Bit j of a byte value.
BitOf(byte, j) == (byte \div (2 ^ j)) % 2 = 1

\* C4: in the read, set_bool, write flow only the bit that was set changes
\* in the PLC's byte, and it takes the value given; and after
\* set_bool(b0, true) followed by set_bool(b1, false) with b0 # b1, bit b0
\* of the buffer is still true.
C4_BitIsolation ==
    /\ (ex_pc = "written" /\ Len(set_calls) = 1) =>
           /\ BitOf(plc_byte, set_calls[1][1]) = set_calls[1][2]
           /\ \A j \in Bits \ {set_calls[1][1]} :
                  BitOf(plc_byte, j) = BitOf(orig_byte, j)
    /\ \A k \in 1..(Len(set_calls) - 1) :
           (/\ k + 1 = Len(set_calls)
            /\ set_calls[k][2] = TRUE
            /\ set_calls[k + 1][2] = FALSE
            /\ set_calls[k][1] # set_calls[k + 1][1])
           => BitOf(reading[1], set_calls[k][1])

\* C4 witness: the example's own call, set_bool(reading, 0, 5, True), on a
\* byte whose bit 5 was clear and whose other bits were not all clear,
\* written back.
C4_Witness ==
    /\ ex_pc = "written"
    /\ set_calls = <<<<5, TRUE>>>>
    /\ orig_byte = 170 - 32
    /\ plc_byte = 170

\* ------------------------------------------------------------------------
\* Properties of the server
\* ------------------------------------------------------------------------

\* C5 (as claimed): start_to with an address that is no IPv4 address
\* raises ValueError, makes no native call (so the server is not started)
\* and leaves every parameter, LocalPort included, as it was, whatever the
\* port.
C5_InvalidAddressChangesNothing ==
    (op.name = "start_to" /\ ~ipv4_match(op.args[1]))
    => /\ op.outcome = "ValueError"
       /\ op.native = <<>>

ReturnsErrorCode ==
    {"register_area", "unregister_area", "lock_area", "unlock_area",
     "set_param", "set_mask", "set_cpu_status", "clear_events"}

\* C7 (as claimed): an operation documented to return the library's error
\* code returns to its caller the code its native call produced.
C7_ReturnsLibraryCode ==
    (op.name \in ReturnsErrorCode /\ op.outcome = "return")
    => op.ret = IntValue(op.native[Len(op.native)].code)

\* The docstring's table of the booleans of byte 0, bit 0 first.
DocumentedBools == <<TRUE, FALSE, TRUE, FALSE, TRUE, FALSE, TRUE, FALSE>>

\* C8 (as claimed): the booleans of byte 0 of the standard values decode
\* as the docstring lists them: bit 0 True, bit 1 False, ..., bit 7 False.
C8_StandardBools ==
    db0 # <<>> =>
        \A b \in Bits : get_bool(db0, 0, b) = DocumentedBools[b + 1]

====
